---- MODULE Spec2Model ----
(***************************************************************************)
(* Model of the outbound-URL safety validator (03-mcp/main.py: is_safe_url *)
(* and its consumer get_page_content) and of the to-do views               *)
(* (01-todo/todos/views.py).                                               *)
(*                                                                         *)
(* Strings are modelled by what the code does with them:                   *)
(*   - a hostname string is [name, caps]: its letters in lower case and    *)
(*     the set of positions written in upper case, so str.lower() is the   *)
(*     map that empties caps and two strings are equal iff both agree;     *)
(*   - an address string is [fam, g]: the family and the 4 octets or the   *)
(*     8 hextets, or fam = "bad" for a text ipaddress cannot parse;        *)
(*   - an f-string reason is [msg, arg]: the template and the value        *)
(*     interpolated into it.                                               *)
(***************************************************************************)
EXTENDS Integers, Sequences, FiniteSets, TLC

\* ---------------------------------------------------------------- bounds
\* upper-case positions a hostname may carry (2^MaxCapPos case variants)
MaxCapPos == 1
\* largest resolved address set the resolver returns
MaxAddrs == 2
\* largest number of stored todos
MaxTodos == 3

\* ------------------------------------------------------------- addresses
V4(a, b, c, d) == [fam |-> "v4", g |-> <<a, b, c, d>>]

V6(a, b, c, d, e, f, h, i) == [fam |-> "v6", g |-> <<a, b, c, d, e, f, h, i>>]

BadAddr == [fam |-> "bad", g |-> <<>>]

Net(a, n) == [fam |-> a.fam, g |-> a.g, len |-> n]

Pow2(n) == IF n = 0 THEN 1 ELSE IF n = 1 THEN 2 ELSE IF n = 2 THEN 4
           ELSE IF n = 3 THEN 8 ELSE IF n = 4 THEN 16 ELSE IF n = 5 THEN 32
           ELSE IF n = 6 THEN 64 ELSE IF n = 7 THEN 128 ELSE IF n = 8 THEN 256
           ELSE IF n = 9 THEN 512 ELSE IF n = 10 THEN 1024
           ELSE IF n = 11 THEN 2048 ELSE IF n = 12 THEN 4096
           ELSE IF n = 13 THEN 8192 ELSE IF n = 14 THEN 16384
           ELSE IF n = 15 THEN 32768 ELSE 65536

GroupWidth(fam) == IF fam = "v4" THEN 8 ELSE 16

\* number of leading bits of group i that a prefix of length n covers
PrefixBits(fam, n, i) ==
    LET w == GroupWidth(fam)
        r == n - w * (i - 1)
    IN  IF r <= 0 THEN 0 ELSE IF r >= w THEN w ELSE r

\* `ip in network`: same family and the first net.len bits agree
InNetwork(ip, net) ==
    /\ ip.fam = net.fam
    /\ \A i \in 1..Len(net.g) :
          LET w == GroupWidth(net.fam)
              b == PrefixBits(net.fam, net.len, i)
          IN  ip.g[i] \div Pow2(w - b) = net.g[i] \div Pow2(w - b)

\* IPv6Address.ipv4_mapped: the IPv4 address of ::ffff:a.b.c.d, else "bad"
ipv4_mapped(ip) ==
    IF /\ ip.fam = "v6"
       /\ \A i \in 1..5 : ip.g[i] = 0
       /\ ip.g[6] = 65535
    THEN V4(ip.g[7] \div 256, ip.g[7] % 256, ip.g[8] \div 256, ip.g[8] % 256)
    ELSE BadAddr

\* ipaddress._IPv4Constants / _IPv6Constants
PrivateNetworks4 ==
    { Net(V4(0, 0, 0, 0), 8), Net(V4(10, 0, 0, 0), 8), Net(V4(127, 0, 0, 0), 8),
      Net(V4(169, 254, 0, 0), 16), Net(V4(172, 16, 0, 0), 12),
      Net(V4(192, 0, 0, 0), 29), Net(V4(192, 0, 0, 170), 31),
      Net(V4(192, 0, 2, 0), 24), Net(V4(192, 168, 0, 0), 16),
      Net(V4(198, 18, 0, 0), 15), Net(V4(198, 51, 100, 0), 24),
      Net(V4(203, 0, 113, 0), 24), Net(V4(240, 0, 0, 0), 4),
      Net(V4(255, 255, 255, 255), 32) }

PrivateNetworks6 ==
    { Net(V6(0, 0, 0, 0, 0, 0, 0, 1), 128), Net(V6(0, 0, 0, 0, 0, 0, 0, 0), 128),
      Net(V6(0, 0, 0, 0, 0, 65535, 0, 0), 96), Net(V6(256, 0, 0, 0, 0, 0, 0, 0), 64),
      Net(V6(8193, 0, 0, 0, 0, 0, 0, 0), 23), Net(V6(8193, 2, 0, 0, 0, 0, 0, 0), 48),
      Net(V6(8193, 3512, 0, 0, 0, 0, 0, 0), 32), Net(V6(8193, 16, 0, 0, 0, 0, 0, 0), 28),
      Net(V6(64512, 0, 0, 0, 0, 0, 0, 0), 7), Net(V6(65152, 0, 0, 0, 0, 0, 0, 0), 10) }

ReservedNetworks6 ==
    { Net(V6(0, 0, 0, 0, 0, 0, 0, 0), 8), Net(V6(256, 0, 0, 0, 0, 0, 0, 0), 8),
      Net(V6(512, 0, 0, 0, 0, 0, 0, 0), 7), Net(V6(1024, 0, 0, 0, 0, 0, 0, 0), 6),
      Net(V6(2048, 0, 0, 0, 0, 0, 0, 0), 5), Net(V6(4096, 0, 0, 0, 0, 0, 0, 0), 4),
      Net(V6(16384, 0, 0, 0, 0, 0, 0, 0), 3), Net(V6(24576, 0, 0, 0, 0, 0, 0, 0), 3),
      Net(V6(32768, 0, 0, 0, 0, 0, 0, 0), 3), Net(V6(40960, 0, 0, 0, 0, 0, 0, 0), 3),
      Net(V6(49152, 0, 0, 0, 0, 0, 0, 0), 3), Net(V6(57344, 0, 0, 0, 0, 0, 0, 0), 4),
      Net(V6(61440, 0, 0, 0, 0, 0, 0, 0), 5), Net(V6(63488, 0, 0, 0, 0, 0, 0, 0), 6),
      Net(V6(65024, 0, 0, 0, 0, 0, 0, 0), 9) }

\* the classification properties of ipaddress.IPv4Address / IPv6Address
is_loopback(ip) ==
    IF ip.fam = "v4" THEN InNetwork(ip, Net(V4(127, 0, 0, 0), 8))
    ELSE ip = V6(0, 0, 0, 0, 0, 0, 0, 1)

\* is_private with RFC 1918's 192.168.0.0/16 left out of the table
is_private_without_192_168(ip) ==
    LET nets4 == PrivateNetworks4 \ {Net(V4(192, 168, 0, 0), 16)}
    IN  IF ip.fam = "v4" THEN \E n \in nets4 : InNetwork(ip, n)
        ELSE IF ipv4_mapped(ip) # BadAddr
             THEN \E n \in nets4 : InNetwork(ipv4_mapped(ip), n)
             ELSE \E n \in PrivateNetworks6 : InNetwork(ip, n)

is_private(ip) ==
    IF ip.fam = "v4" THEN \E n \in PrivateNetworks4 : InNetwork(ip, n)
    ELSE IF ipv4_mapped(ip) # BadAddr
         THEN \E n \in PrivateNetworks4 : InNetwork(ipv4_mapped(ip), n)
         ELSE \E n \in PrivateNetworks6 : InNetwork(ip, n)

is_link_local(ip) ==
    IF ip.fam = "v4" THEN InNetwork(ip, Net(V4(169, 254, 0, 0), 16))
    ELSE InNetwork(ip, Net(V6(65152, 0, 0, 0, 0, 0, 0, 0), 10))

is_multicast(ip) ==
    IF ip.fam = "v4" THEN InNetwork(ip, Net(V4(224, 0, 0, 0), 4))
    ELSE InNetwork(ip, Net(V6(65280, 0, 0, 0, 0, 0, 0, 0), 8))

is_unspecified(ip) ==
    IF ip.fam = "v4" THEN ip = V4(0, 0, 0, 0)
    ELSE ip = V6(0, 0, 0, 0, 0, 0, 0, 0)

is_reserved(ip) ==
    IF ip.fam = "v4" THEN InNetwork(ip, Net(V4(240, 0, 0, 0), 4))
    ELSE \E n \in ReservedNetworks6 : InNetwork(ip, n)

is_site_local(ip) == InNetwork(ip, Net(V6(65216, 0, 0, 0, 0, 0, 0, 0), 10))

\* ------------------------------------------------------- strings, reasons
Host(n, c) == [name |-> n, caps |-> c]

\* str.lower()
Lower(h) == [h EXCEPT !.caps = {}]

\* None / "" : the falsy hostname
NoHost == Host("", {})

Reason(m) == [msg |-> m]

ReasonWith(m, a) == [msg |-> m, arg |-> a]

Verdict(s, r) == [safe |-> s, reason |-> r]

NoVerdict == [safe |-> FALSE, reason |-> Reason("<no verdict>")]

NoAddr == [fam |-> "none", g |-> <<>>]

\* ------------------------------------------------------------ exceptions
ExceptionBase(e) ==
    IF e = "gaierror" THEN "OSError"
    ELSE IF e = "UnicodeError" THEN "ValueError"
    ELSE IF e \in {"OSError", "ValueError", "RuntimeError"} THEN "Exception"
    ELSE "BaseException"

\* isinstance(e, cls) for the exception classes above
IsInstance(e, cls) ==
    \/ e = cls
    \/ ExceptionBase(e) = cls
    \/ ExceptionBase(ExceptionBase(e)) = cls

\* a handler that lets everything except ValueError through
outer_except_ValueError_only(e) == IsInstance(e, "ValueError")

\* line 190: except Exception
outer_except(e) == IsInstance(e, "Exception")

\* line 184: except ValueError
inner_except(e) == IsInstance(e, "ValueError")

\* line 104: except socket.gaierror
resolve_except(e) == IsInstance(e, "gaierror")

\* ------------------------------------------------------------ the inputs
Names == {"localhost", "localhost.localdomain", "example.com"}

Literals == {"169.254.169.254", "8.8.8.8"}

Metadata == V4(169, 254, 169, 254)

\* inet_pton on a numeric host: the address a literal denotes, else NoAddr
LiteralAddr(n) ==
    IF n = "169.254.169.254" THEN Metadata
    ELSE IF n = "8.8.8.8" THEN V4(8, 8, 8, 8)
    ELSE NoAddr

Netlocs ==
    {Host(n, c) : n \in Names, c \in SUBSET (1..MaxCapPos)}
      \cup {Host(n, {}) : n \in Literals \cup {"", "["}}

Schemes == {"http://", "https://", "ftp://", ""}

Urls == {[scheme |-> s, netloc |-> h] : s \in Schemes, h \in Netlocs}

AllowCandidates == {Host("example.com", {}), Host("localhost", {})}

AddrPool ==
    { V4(8, 8, 8, 8), V4(172, 32, 0, 1), V4(100, 64, 0, 1),
      V4(10, 1, 2, 3), V4(172, 31, 255, 255), V4(192, 168, 0, 1),
      V4(127, 0, 0, 1), Metadata, V4(169, 254, 0, 1),
      V4(224, 0, 0, 1), V4(0, 0, 0, 0), V4(240, 0, 0, 1),
      V6(0, 0, 0, 0, 0, 0, 0, 1), V6(65152, 0, 0, 0, 0, 0, 0, 1),
      V6(65216, 0, 0, 0, 0, 0, 0, 1), V6(9734, 18176, 0, 0, 0, 0, 0, 4369),
      V6(0, 0, 0, 0, 0, 65535, 2560, 1), BadAddr }

RECURSIVE SetsUpTo(_)
\* the subsets of AddrPool with at most n elements
SetsUpTo(n) ==
    IF n = 0 THEN {{}}
    ELSE LET p == SetsUpTo(n - 1)
         IN  p \cup {t \cup {a} : t \in p, a \in AddrPool}

\* info[4][0] for info in addr_info: a non-empty set of address strings
AddrSets == SetsUpTo(MaxAddrs) \ {{}}

\* what socket.getaddrinfo can do for a hostname: raise, or answer a set
ResolverOutcomes(h) ==
    IF LiteralAddr(h.name) # NoAddr
    THEN {[exc |-> "none", addrs |-> {LiteralAddr(h.name)}]}
    ELSE {[exc |-> e, addrs |-> {}] : e \in {"gaierror", "UnicodeError", "OSError"}}
           \cup {[exc |-> "none", addrs |-> s] : s \in AddrSets}

\* ------------------------------------------------ per-address inspection
Pass == [safe |-> TRUE, reason |-> Reason(""), line |-> 0]

Reject(m, ip_str, l) == [safe |-> FALSE, reason |-> ReasonWith(m, ip_str), line |-> l]

\* lines 148-174: the explicit IPv4 ranges
explicit_ipv4_checks(ip) ==
    IF \E r \in {Net(V4(10, 0, 0, 0), 8), Net(V4(172, 16, 0, 0), 12),
                 Net(V4(192, 168, 0, 0), 16)} : InNetwork(ip, r)
    THEN Reject("Error: Private network address (%s) is not permitted", ip, 157)
    ELSE IF InNetwork(ip, Net(V4(127, 0, 0, 0), 8))
    THEN Reject("Error: Localhost address (%s) is not permitted", ip, 164)
    ELSE IF InNetwork(ip, Net(V4(169, 254, 0, 0), 16))
    THEN Reject("Error: Link-local address (%s) is not permitted", ip, 171)
    ELSE Pass

\* lines 113-145: the classification checks and the metadata comparison
general_checks(ip) ==
    IF is_loopback(ip)
    THEN Reject("Error: Loopback address (%s) is not permitted", ip, 114)
    ELSE IF is_private(ip)
    THEN Reject("Error: Private address (%s) is not permitted", ip, 117)
    ELSE IF is_link_local(ip)
    THEN Reject("Error: Link-local address (%s) is not permitted", ip, 120)
    ELSE IF is_multicast(ip)
    THEN Reject("Error: Multicast address (%s) is not permitted", ip, 126)
    ELSE IF is_unspecified(ip)
    THEN Reject("Error: Unspecified address (%s) is not permitted", ip, 132)
    ELSE IF is_reserved(ip)
    THEN Reject("Error: Reserved address (%s) is not permitted", ip, 138)
    ELSE IF ip = Metadata
    THEN [safe |-> FALSE, line |-> 142, reason |->
          Reason("Error: Access to cloud metadata endpoint (169.254.169.254) is not permitted")]
    ELSE Pass

\* lines 177-182: the IPv6 site-local check
ipv6_checks(ip) ==
    IF ip.fam = "v6" /\ is_site_local(ip)
    THEN Reject("Error: Site-local IPv6 address (%s) is not permitted", ip, 179)
    ELSE Pass

\* the loop body without lines 147-174
check_ip_collapsed(ip_s) ==
    LET general == general_checks(ip_s)
    IN  IF ip_s.fam = "bad"
        THEN Reject("Error: Invalid IP address format: %s", ip_s, 185)
        ELSE IF ~general.safe THEN general
        ELSE ipv6_checks(ip_s)

\* lines 109-185: one iteration of the loop; Pass when no return is taken
check_ip(ip_s) ==
    LET general == general_checks(ip_s)
        explicit == explicit_ipv4_checks(ip_s)
    IN  IF ip_s.fam = "bad"
        THEN Reject("Error: Invalid IP address format: %s", ip_s, 185)
        ELSE IF ~general.safe THEN general
        ELSE IF ip_s.fam = "v4" /\ ~explicit.safe THEN explicit
        ELSE ipv6_checks(ip_s)

\* ----------------------------------------------------------------- state
VARIABLES
    ALLOWED_DOMAINS,   \* the process-wide allowlist (line 19)
    pc,                \* position of the call in progress
    caller,            \* the entry point called: is_safe_url or get_page_content
    url,               \* the argument
    hostname,          \* is_safe_url: parsed.hostname
    ip_addresses,      \* is_safe_url: the resolved address set
    todo,              \* is_safe_url: addresses the loop has not visited yet
    ip_str,            \* is_safe_url: the loop variable
    verdict,           \* is_safe_url: the returned (bool, str)
    ret_line,          \* is_safe_url: the line of the return taken
    raised,            \* the exception raised during the call, "none" if none
    resolver_calls,    \* socket.getaddrinfo calls made by the call
    ip_parses,         \* ipaddress.ip_address calls made by the call
    requests_sent,     \* requests.get calls made by the call
    result,            \* get_page_content: the returned string
    todos,             \* the Todo table: id -> row
    next_id,           \* the next primary key
    request,           \* the HTTP request being served by a view
    response           \* the view's response

urlVars == <<pc, caller, url, hostname, ip_addresses, todo, ip_str, verdict,
             ret_line, raised, resolver_calls, ip_parses, requests_sent, result>>

todoVars == <<todos, next_id, request, response>>

vars == <<ALLOWED_DOMAINS, urlVars, todoVars>>

NoUrl == [scheme |-> "", netloc |-> NoHost]

NoResult == Reason("<no result>")

NoRequest == [view |-> "none"]

NoResponse == [status |-> 0]

UrlIdle ==
    /\ pc = "idle"
    /\ caller = "none"
    /\ url = NoUrl
    /\ hostname = NoHost
    /\ ip_addresses = {}
    /\ todo = {}
    /\ ip_str = NoAddr
    /\ verdict = NoVerdict
    /\ ret_line = 0
    /\ raised = "none"
    /\ resolver_calls = 0
    /\ ip_parses = 0
    /\ requests_sent = 0
    /\ result = NoResult

TodoIdle ==
    /\ todos = <<>>
    /\ next_id = 1
    /\ request = NoRequest
    /\ response = NoResponse

Init ==
    /\ ALLOWED_DOMAINS \in SUBSET AllowCandidates
    /\ UrlIdle
    /\ TodoIdle

\* where control goes when is_safe_url returns
AfterReturn == IF caller = "is_safe_url" THEN "done" ELSE "gate"

\* return v from line l of is_safe_url
Return(v, l) ==
    /\ verdict' = v
    /\ ret_line' = l
    /\ pc' = AfterReturn

\* exception e leaves the try body of is_safe_url (line 190)
Raise(e) ==
    /\ raised' = e
    /\ IF outer_except(e)
       THEN Return(Verdict(FALSE, ReasonWith("Error: URL validation failed: %s", [exc |-> e])), 191)
       ELSE /\ pc' = "propagated"
            /\ UNCHANGED <<verdict, ret_line>>

\* ------------------------------------------------------------ is_safe_url
\* urlparse(url): raises ValueError on an unbalanced "[" in the netloc
urlparse_outcomes(u) ==
    IF u.scheme # "" /\ u.netloc.name = "[" THEN {"ValueError"}
    ELSE {"none", "RuntimeError"}

\* parsed.hostname: the netloc's host in lower case; None without "//"
url_hostname(u) == IF u.scheme = "" THEN NoHost ELSE Lower(u.netloc)

\* an allowlist test that ignores the allowlist
allowlisted_never(h) == FALSE

\* line 92
allowlisted(h) == ALLOWED_DOMAINS # {} /\ h \in ALLOWED_DOMAINS

localhost_names == {Host("localhost", {}), Host("localhost.localdomain", {})}

\* a localhost test that forgets the localhost.localdomain alias
is_localhost_name_one_alias(h) == Lower(h) = Host("localhost", {})

\* line 97
is_localhost_name(h) == Lower(h) \in localhost_names

\* a loop that stops after its first iteration
loop_exhausted_after_first(rest) == TRUE

\* line 108: the for loop has no address left
loop_exhausted(rest) == rest = {}

\* a gaierror handler that answers Safe
resolve_failure_verdict_open(h) == Verdict(TRUE, Reason(""))

\* line 105
resolve_failure_verdict(h) ==
    Verdict(FALSE, ReasonWith("Error: Unable to resolve hostname '%s'", h))

\* a final return that rejects
all_passed_verdict_closed == Verdict(FALSE, Reason("Error: no address accepted"))

\* line 188
all_passed_verdict == Verdict(TRUE, Reason(""))

Call(u, c) ==
    /\ pc = "idle"
    /\ url' = u
    /\ caller' = c
    /\ pc' = IF c = "get_page_content" THEN "prefix" ELSE "parse"
    /\ UNCHANGED <<ALLOWED_DOMAINS, hostname, ip_addresses, todo, ip_str, verdict,
                   ret_line, raised, resolver_calls, ip_parses, requests_sent,
                   result, todoVars>>

\* lines 85-98
Parse(exc) ==
    /\ pc = "parse"
    /\ exc \in urlparse_outcomes(url)
    /\ IF exc # "none"
       THEN /\ Raise(exc)
            /\ UNCHANGED hostname
       ELSE /\ hostname' = url_hostname(url)
            /\ UNCHANGED raised
            /\ IF hostname' = NoHost
               THEN Return(Verdict(FALSE, Reason("Error: Unable to extract hostname from URL")), 89)
               ELSE IF allowlisted(hostname')
               THEN Return(Verdict(TRUE, Reason("")), 93)
               ELSE IF is_localhost_name(hostname')
               THEN Return(Verdict(FALSE, Reason("Error: Access to localhost is not permitted")), 98)
               ELSE /\ pc' = "resolve"
                    /\ UNCHANGED <<verdict, ret_line>>
    /\ UNCHANGED <<ALLOWED_DOMAINS, caller, url, ip_addresses, todo, ip_str,
                   resolver_calls, ip_parses, requests_sent, result, todoVars>>

\* lines 100-105
Resolve(o) ==
    /\ pc = "resolve"
    /\ resolver_calls' = resolver_calls + 1
    /\ IF o.exc = "none"
       THEN /\ ip_addresses' = o.addrs
            /\ todo' = o.addrs
            /\ pc' = "inspect"
            /\ UNCHANGED <<verdict, ret_line, raised>>
       ELSE /\ UNCHANGED <<ip_addresses, todo>>
            /\ IF resolve_except(o.exc)
               THEN /\ raised' = o.exc
                    /\ Return(resolve_failure_verdict(hostname), 105)
               ELSE Raise(o.exc)
    /\ UNCHANGED <<ALLOWED_DOMAINS, caller, url, hostname, ip_str, ip_parses,
                   requests_sent, result, todoVars>>

\* lines 108-188: one iteration of the loop over the address set, in any order
Inspect(a, fault) ==
    /\ pc = "inspect"
    /\ a \in todo
    /\ fault \in {"none", "RuntimeError"}
    /\ ip_str' = a
    /\ todo' = todo \ {a}
    /\ ip_parses' = ip_parses + 1
    /\ IF fault # "none" /\ ~inner_except(fault)
       THEN Raise(fault)
       ELSE /\ raised' = IF a.fam = "bad" THEN "ValueError" ELSE "none"
            /\ IF ~check_ip(a).safe
               THEN LET r == check_ip(a) IN Return(Verdict(FALSE, r.reason), r.line)
               ELSE IF loop_exhausted(todo')
               THEN Return(all_passed_verdict, 188)
               ELSE /\ pc' = "inspect"
                    /\ UNCHANGED <<verdict, ret_line>>
    /\ UNCHANGED <<ALLOWED_DOMAINS, caller, url, hostname, ip_addresses,
                   resolver_calls, requests_sent, result, todoVars>>

\* ------------------------------------------------------- get_page_content
\* line 222
has_http_prefix(u) == u.scheme \in {"http://", "https://"}

\* a gate that lets every verdict through
gate_blocks_never(v) == FALSE

\* line 227
gate_blocks(v) == ~v.safe

\* lines 222-223
CheckPrefix ==
    /\ pc = "prefix"
    /\ IF has_http_prefix(url)
       THEN /\ pc' = "parse"
            /\ UNCHANGED result
       ELSE /\ pc' = "done"
            /\ result' = Reason("Error: Invalid URL format. Must start with http:// or https://")
    /\ UNCHANGED <<ALLOWED_DOMAINS, caller, url, hostname, ip_addresses, todo,
                   ip_str, verdict, ret_line, raised, resolver_calls, ip_parses,
                   requests_sent, todoVars>>

\* lines 226-228
Gate ==
    /\ pc = "gate"
    /\ IF gate_blocks(verdict)
       THEN /\ result' = verdict.reason
            /\ pc' = "done"
       ELSE /\ pc' = "request"
            /\ UNCHANGED result
    /\ UNCHANGED <<ALLOWED_DOMAINS, caller, url, hostname, ip_addresses, todo,
                   ip_str, verdict, ret_line, raised, resolver_calls, ip_parses,
                   requests_sent, todoVars>>

\* lines 231-241
Request(o) ==
    /\ pc = "request"
    /\ o \in {"ok", "Timeout", "RequestException"}
    /\ requests_sent' = requests_sent + 1
    /\ result' = IF o = "ok" THEN ReasonWith("<response.text of https://r.jina.ai/%s>", url)
                 ELSE IF o = "Timeout" THEN Reason("Error: Request timed out after %s seconds")
                 ELSE Reason("Error fetching content: %s")
    /\ pc' = "done"
    /\ UNCHANGED <<ALLOWED_DOMAINS, caller, url, hostname, ip_addresses, todo,
                   ip_str, verdict, ret_line, raised, resolver_calls, ip_parses,
                   todoVars>>

\* the call is over; the next one starts from fresh locals
Reset ==
    /\ pc = "done"
    /\ pc' = "idle"
    /\ caller' = "none"
    /\ url' = NoUrl
    /\ hostname' = NoHost
    /\ ip_addresses' = {}
    /\ todo' = {}
    /\ ip_str' = NoAddr
    /\ verdict' = NoVerdict
    /\ ret_line' = 0
    /\ raised' = "none"
    /\ resolver_calls' = 0
    /\ ip_parses' = 0
    /\ requests_sent' = 0
    /\ result' = NoResult
    /\ UNCHANGED <<ALLOWED_DOMAINS, todoVars>>

Next ==
    \/ \E u \in Urls, c \in {"is_safe_url", "get_page_content"} : Call(u, c)
    \/ CheckPrefix
    \/ \E e \in {"none", "ValueError", "RuntimeError"} : Parse(e)
    \/ pc = "resolve" /\ \E o \in ResolverOutcomes(hostname) : Resolve(o)
    \/ \E a \in todo, f \in {"none", "RuntimeError"} : Inspect(a, f)
    \/ Gate
    \/ \E o \in {"ok", "Timeout", "RequestException"} : Request(o)
    \/ Reset

Spec == Init /\ [][Next]_vars

\* ------------------------------------------------------------- the todos
\* request.POST.get("title") is None when the field is missing
NoTitle == "<None>"

Titles == {"Test Task", "New Entry"}

Requests ==
    {[view |-> "add_todo", method |-> m, title |-> t] :
        m \in {"GET", "POST"}, t \in Titles \cup {"", NoTitle}}
      \cup {[view |-> v, todo_id |-> i] :
              v \in {"delete_todo", "toggle_todo"}, i \in 1..(MaxTodos + 1)}
      \cup {[view |-> "home"]}

Redirect(to) == [status |-> 302, location |-> to]

\* Todo.objects.create(title=title): a new row under a fresh primary key
create(t) == [i \in DOMAIN todos \cup {next_id} |->
                IF i = next_id THEN [title |-> t, is_resolved |-> FALSE] ELSE todos[i]]

\* a truth test that takes the empty string for a title
title_given_even_empty(t) == t # NoTitle

\* line 38: if title
title_given(t) == t # NoTitle /\ t # ""

\* lines 28-31
home(r) ==
    /\ r.view = "home"
    /\ UNCHANGED <<ALLOWED_DOMAINS, urlVars>>
    /\ request' = r
    /\ response' = [status |-> 200, todos |-> todos]
    /\ UNCHANGED <<todos, next_id>>

\* lines 34-40
add_todo(r) ==
    /\ r.view = "add_todo"
    /\ UNCHANGED <<ALLOWED_DOMAINS, urlVars>>
    /\ (r.method = "POST" /\ title_given(r.title)) => next_id <= MaxTodos
    /\ request' = r
    /\ IF r.method = "POST" /\ title_given(r.title)
       THEN /\ todos' = create(r.title)
            /\ next_id' = next_id + 1
       ELSE UNCHANGED <<todos, next_id>>
    /\ response' = Redirect("home")

\* lines 43-48
delete_todo(r) ==
    /\ r.view = "delete_todo"
    /\ UNCHANGED <<ALLOWED_DOMAINS, urlVars>>
    /\ request' = r
    /\ IF r.todo_id \in DOMAIN todos
       THEN /\ todos' = [i \in DOMAIN todos \ {r.todo_id} |-> todos[i]]
            /\ response' = Redirect("home")
       ELSE /\ response' = [status |-> 404]
            /\ UNCHANGED todos
    /\ UNCHANGED next_id

\* lines 51-57
toggle_todo(r) ==
    /\ r.view = "toggle_todo"
    /\ UNCHANGED <<ALLOWED_DOMAINS, urlVars>>
    /\ request' = r
    /\ IF r.todo_id \in DOMAIN todos
       THEN /\ todos' = [todos EXCEPT ![r.todo_id].is_resolved = ~@]
            /\ response' = Redirect("home")
       ELSE /\ response' = [status |-> 404]
            /\ UNCHANGED todos
    /\ UNCHANGED next_id

NextTodo ==
    \/ \E r \in Requests : home(r)
    \/ \E r \in Requests : add_todo(r)
    \/ \E r \in Requests : delete_todo(r)
    \/ \E r \in Requests : toggle_todo(r)

SpecTodo == Init /\ [][NextTodo]_vars

\* ------------------------------------------------------------ properties
\* is_safe_url has returned to its caller
Returned == ret_line # 0 /\ pc \in {"done", "gate", "request"}

\* the address is in one of the blocked classes
Blocked(a) ==
    /\ a.fam \in {"v4", "v6"}
    /\ \/ is_loopback(a)
       \/ is_private(a)
       \/ is_link_local(a)
       \/ is_multicast(a)
       \/ is_unspecified(a)
       \/ is_reserved(a)
       \/ a = Metadata
       \/ (a.fam = "v6" /\ is_site_local(a))

Safe == Verdict(TRUE, Reason(""))

\* C1: when resolution succeeded and some resolved address is in a blocked
\* class, is_safe_url returns Unsafe, whatever the other addresses are and in
\* whatever order the set is iterated.
NoPartialSafety ==
    (Returned /\ \E a \in ip_addresses : Blocked(a)) => ~verdict.safe

\* a public address was visited first and passed, a blocked one came second
NoPartialSafetyWitness ==
    /\ pc = "done"
    /\ raised = "none"
    /\ ip_parses = 2
    /\ Blocked(ip_str)
    /\ \E b \in ip_addresses : b.fam # "bad" /\ ~Blocked(b)
    /\ ~verdict.safe

\* C2: when ALLOWED_DOMAINS is non-empty and the extracted hostname is a
\* member, is_safe_url returns Safe with an empty reason and the call makes no
\* resolution and no address inspection.
AllowlistBypass ==
    (ALLOWED_DOMAINS # {} /\ hostname \in ALLOWED_DOMAINS)
       => /\ Returned
          /\ verdict = Safe
          /\ resolver_calls = 0
          /\ ip_parses = 0
          /\ pc \notin {"resolve", "inspect"}

AllowlistBypassWitness ==
    /\ pc = "done"
    /\ hostname \in ALLOWED_DOMAINS
    /\ url.netloc.caps # {}
    /\ verdict.safe
    /\ ret_line = 93

\* the URL's hostname was extracted and is a localhost alias in some case
LocalhostUrl ==
    /\ Returned
    /\ hostname # NoHost
    /\ Lower(url.netloc) \in localhost_names

LocalhostVerdict == Verdict(FALSE, Reason("Error: Access to localhost is not permitted"))

\* C3 as stated: a localhost hostname in any letter case is Unsafe with the
\* localhost reason under every configuration of the allowlist.
LocalhostAlwaysUnsafe == LocalhostUrl => verdict = LocalhostVerdict

\* C3 amended: a localhost hostname in any letter case that is not a member
\* of ALLOWED_DOMAINS is Unsafe with the localhost reason, without resolution.
LocalhostUnsafeUnlessAllowlisted ==
    (LocalhostUrl /\ hostname \notin ALLOWED_DOMAINS)
       => verdict = LocalhostVerdict /\ resolver_calls = 0

LocalhostUnsafeWitness ==
    /\ pc = "done"
    /\ url.netloc = Host("localhost.localdomain", {1})
    /\ ALLOWED_DOMAINS # {}
    /\ verdict = LocalhostVerdict

MetadataVerdict ==
    Verdict(FALSE, Reason("Error: Access to cloud metadata endpoint (169.254.169.254) is not permitted"))

\* C4: for the literal hostname 169.254.169.254 the verdict is Unsafe with the
\* metadata-specific reason.
MetadataReason ==
    (/\ Returned
     /\ raised = "none"
     /\ hostname = Host("169.254.169.254", {})
     /\ Metadata \in ip_addresses)
       => verdict = MetadataVerdict

\* C5: a hostname whose resolution fails gets Unsafe with the
\* resolution-failure reason, and the resolver is called at most once per call.
FailClosedResolution ==
    /\ resolver_calls <= 1
    /\ (Returned /\ raised = "gaierror")
          => /\ ~verdict.safe
             /\ verdict.reason = ReasonWith("Error: Unable to resolve hostname '%s'", hostname)
             /\ resolver_calls = 1
             /\ ip_parses = 0

FailClosedResolutionWitness ==
    /\ pc = "done"
    /\ raised = "gaierror"
    /\ resolver_calls = 1
    /\ ~verdict.safe

\* C6: get_page_content issues a request only after the prefix check passed
\* and is_safe_url returned Safe; on Unsafe its result is the validator's
\* reason and no request is issued.
FetchGate ==
    /\ (pc = "request" \/ requests_sent > 0)
          => /\ caller = "get_page_content"
             /\ url.scheme \in {"http://", "https://"}
             /\ Returned
             /\ verdict.safe
    /\ (caller = "get_page_content" /\ pc = "done" /\ ret_line # 0 /\ ~verdict.safe)
          => result = verdict.reason /\ requests_sent = 0
    /\ requests_sent <= 1

FetchGateWitness ==
    /\ pc = "done"
    /\ requests_sent = 1
    /\ verdict.safe
    /\ ret_line = 188

\* the number of steps is_safe_url can still take before it returns
Rank ==
    IF pc = "parse" THEN Cardinality(AddrPool) + 2
    ELSE IF pc = "resolve" THEN Cardinality(AddrPool) + 1
    ELSE IF pc = "inspect" THEN Cardinality(todo)
    ELSE 0

\* C7: every call of is_safe_url ends with exactly one verdict, Safe with an
\* empty reason or Unsafe with a reason, and no exception leaves it, whatever
\* the URL parser, the resolver and the address parser do: no exception
\* propagates, a call in progress can always take a step, and every step
\* lowers the number of steps left before the return.
Totality ==
    /\ [](pc # "propagated")
    /\ [](Returned => /\ verdict # NoVerdict
                      /\ verdict.safe <=> (verdict.reason = Reason("")))
    /\ [](pc \in {"parse", "resolve", "inspect"} => Rank > 0 /\ ENABLED Next)
    /\ [][(pc \in {"parse", "resolve", "inspect"}) => (Rank' < Rank)]_vars

TotalityWitness ==
    /\ pc = "done"
    /\ raised = "RuntimeError"
    /\ ip_parses = 1
    /\ ret_line = 191
    /\ ~verdict.safe

\* C8: when the hostname is extracted, is not a localhost alias, resolution
\* succeeds and every resolved address is outside the blocked classes,
\* is_safe_url returns Safe with an empty reason.
PublicHostsAreSafe ==
    (/\ Returned
     /\ raised = "none"
     /\ hostname # NoHost
     /\ Lower(hostname) \notin localhost_names
     /\ ip_addresses # {}
     /\ \A a \in ip_addresses : a.fam # "bad" /\ ~Blocked(a))
       => verdict = Safe

PublicHostsAreSafeWitness ==
    /\ pc = "done"
    /\ ALLOWED_DOMAINS = {}
    /\ Cardinality(ip_addresses) = 2
    /\ ip_parses = 2
    /\ verdict = Safe

\* C9: add_todo adds exactly one todo with the submitted title, leaving the
\* others alone, when the method is POST and the title is non-empty; otherwise
\* the stored todos are unchanged; the response is always a redirect to home.
AddTodoFrame ==
    [][request'.view = "add_todo" =>
         /\ response' = [status |-> 302, location |-> "home"]
         /\ IF request'.method = "POST" /\ request'.title \notin {"", NoTitle}
            THEN /\ Cardinality(DOMAIN todos') = Cardinality(DOMAIN todos) + 1
                 /\ \A i \in DOMAIN todos : i \in DOMAIN todos' /\ todos'[i] = todos[i]
                 /\ \A i \in DOMAIN todos' \ DOMAIN todos : todos'[i].title = request'.title
            ELSE todos' = todos]_vars

AddTodoFrameWitness ==
    /\ request = [view |-> "add_todo", method |-> "POST", title |-> "New Entry"]
    /\ Cardinality(DOMAIN todos) = 2
    /\ \E i \in DOMAIN todos : todos[i].title = "Test Task"
    /\ \E i \in DOMAIN todos : todos[i].title = "New Entry"
    /\ response.status = 302

\* C10: the explicit IPv4 range checks never produce the verdict, and the loop
\* body without them gives every visited address the same verdict and reason.
ExplicitChecksRedundant ==
    /\ ret_line \notin {157, 164, 171}
    /\ ip_str # NoAddr
          => /\ check_ip_collapsed(ip_str).safe = check_ip(ip_str).safe
             /\ check_ip_collapsed(ip_str).reason = check_ip(ip_str).reason

\* an address of an explicit range was visited and rejected
ExplicitChecksRedundantWitness ==
    /\ pc = "done"
    /\ ip_str = V4(192, 168, 0, 1)
    /\ ip_parses = 2
    /\ ret_line = 117

====
